---- MODULE Spec2Model ----
(***************************************************************************)
(* PTHash: the in-memory partitioned builder                               *)
(* (internal_memory_builder_partitioned_phf), the function objects         *)
(* single_phf and partitioned_phf, and the parts of the library they call  *)
(* (hasher, bucketers, fastmod, the single builder's pilot search and      *)
(* free-slot list).  Integers are scaled from 64 bits to HashBits bits.    *)
(***************************************************************************)
EXTENDS Integers, Sequences, FiniteSets, TLC

(* ------------------------------ bounds --------------------------------- *)
\* keys are drawn from 0 .. KeyUniverse-1
KeyUniverse == 4
\* num_partitions is drawn from 0 .. MaxPartitions
MaxPartitions == 3
\* num_threads is drawn from 1 .. MaxThreads
MaxThreads == 3
\* width of first(), second(), mix() and of the hashed pilot (64 in the code)
HashBits == 4
\* the pilot search tries pilots 0 .. MaxPilot ("very-large ceiling")
MaxPilot == 7

(* ------------------------- program constants --------------------------- *)
\* constants::min_partition_size, scaled
MinPartitionSize == 1
\* constants::invalid_seed: the sentinel that asks for a random seed
InvalidSeed == 0

Seeds == {1, 2}
\* alpha and c are doubles; the model draws them from these fractions <<num, den>>,
\* paired: valid ones, an alpha above 1, a c of zero
AlphaC ==
    {[alpha |-> <<1, 1>>, c |-> <<2, 1>>],
     [alpha |-> <<2, 3>>, c |-> <<1, 4>>],
     [alpha |-> <<3, 2>>, c |-> <<2, 1>>],
     [alpha |-> <<1, 1>>, c |-> <<0, 1>>]}

(* ----------------------------- arithmetic ------------------------------ *)
RECURSIVE Pow(_, _)
Pow(b, e) == IF e = 0 THEN 1 ELSE b * Pow(b, e - 1)

HashRange == Pow(2, HashBits)

RECURSIVE XorBits(_, _, _)
XorBits(a, b, w) ==
    IF w = 0 THEN 0
    ELSE (((a % 2) + (b % 2)) % 2) + 2 * XorBits(a \div 2, b \div 2, w - 1)

Xor(a, b) == XorBits(a, b, HashBits)

Max(a, b) == IF a >= b THEN a ELSE b

\* the elements of a set of integers in ascending order
RECURSIVE SortedSeq(_)
SortedSeq(S) ==
    IF S = {} THEN << >>
    ELSE LET x == CHOOSE y \in S : \A z \in S : y <= z
         IN <<x>> \o SortedSeq(S \ {x})

RECURSIVE SumSeq(_)
SumSeq(s) == IF s = << >> THEN 0 ELSE s[1] + SumSeq(Tail(s))

\* static_cast<uint64_t>(std::ceil((c * n) / (n > 1 ? log2(n) : 1))):
\* the least b with b * log2(n) >= c * n, that is n^(b*cden) >= 2^(cnum*n)
RECURSIVE LeastBuckets(_, _, _)
LeastBuckets(b, n, c) ==
    IF Pow(n, b * c[2]) >= Pow(2, c[1] * n) THEN b ELSE LeastBuckets(b + 1, n, c)

CeilBuckets(n, c) ==
    IF n > 1 THEN LeastBuckets(0, n, c)
    ELSE (c[1] * n + c[2] - 1) \div c[2]

(* ------------------------------- hasher -------------------------------- *)
\* Hasher::hash(key, seed): two halves; distinct keys may collide under a seed
Hash(key, seed) ==
    LET k == IF seed = 1 THEN key % 3 ELSE key
    IN [first  |-> (13 * k + 3 * seed) % HashRange,
        second |-> (11 * k + 7 * seed + (k \div 2)) % HashRange]

\* hash128::mix()
Mix(h) == Xor(h.first, h.second)

\* default_hash64(pilot, seed)
DefaultHash64(pilot, seed) == (5 * pilot + 3 * seed + 1) % HashRange

(* ------------------------------- fastmod ------------------------------- *)
\* fastmod::computeM_u64(d), at twice the hash width
ComputeM(d) == (Pow(2, 2 * HashBits) - 1) \div d + 1

\* fastmod::fastmod_u64(a, M, d)
FastMod(a, M, d) == (((M * a) % Pow(2, 2 * HashBits)) * d) \div Pow(2, 2 * HashBits)

(* ------------------------------ bucketers ------------------------------ *)
\* uniform_bucketer::bucket of a bucketer initialised with N buckets
UniformBucket(N, x) == FastMod(x, ComputeM(N), N)

\* skew_bucketer: dense prefix of 0.3*B buckets taking the hashes below 0.6*2^w
DenseBuckets(B) == (3 * B) \div 10
SkewThreshold == (6 * HashRange) \div 10
SkewBucket(B, x) ==
    LET dense == DenseBuckets(B)
        sparse == B - dense
    IN IF x < SkewThreshold /\ dense > 0
       THEN FastMod(x, ComputeM(dense), dense)
       ELSE dense + FastMod(x, ComputeM(sparse), sparse)


(* ----------------------------- table size ------------------------------ *)
RECURSIVE AndBits(_, _, _)
AndBits(a, b, w) ==
    IF w = 0 THEN 0
    ELSE ((a % 2) * (b % 2)) + 2 * AndBits(a \div 2, b \div 2, w - 1)

\* (table_size & (table_size - 1)) == 0 on unsigned integers: zero or a power of two
LowBitsClear(t) ==
    AndBits(t, (t - 1) % Pow(2, 2 * HashBits), 2 * HashBits) = 0

\* the table size with the quotient rounded up, one more when that is a power of two
TableSizeCeil(size, alpha) ==
    LET t == (size * alpha[2] + alpha[1] - 1) \div alpha[1]
    IN IF t \in {Pow(2, k) : k \in 0 .. 2 * HashBits} THEN t + 1 ELSE t

\* uint64_t table_size = static_cast<double>(size) / alpha;
\* if ((table_size & (table_size - 1)) == 0) table_size += 1;
TableSize(size, alpha) ==
    LET t == (size * alpha[2]) \div alpha[1]
    IN IF LowBitsClear(t) THEN t + 1 ELSE t

(* --------------------- single builder (pilot search) ------------------- *)
AlphaValid(alpha) == alpha[1] > 0 /\ alpha[1] <= alpha[2]
CValid(c) == c[1] > 0

\* number of buckets: the config's when set, else derived from c and n
NumBuckets(n, config) ==
    IF config.num_buckets # 0 THEN config.num_buckets
    ELSE Max(1, CeilBuckets(Max(n, 2), config.c) )

\* the hashes of bucket b, in input order
BucketHashes(B, hashes, b) ==
    SelectSeq(hashes, LAMBDA h : SkewBucket(B, h.first) = b)

\* buckets by descending size, ties by ascending index
RECURSIVE OrderBuckets(_, _, _)
OrderBuckets(S, B, hashes) ==
    IF S = {} THEN << >>
    ELSE LET sizes == [b \in S |-> Len(BucketHashes(B, hashes, b))]
             size(b) == sizes[b]
             b0 == CHOOSE b \in S : \A o \in S :
                       size(b) > size(o) \/ (size(b) = size(o) /\ b <= o)
         IN <<b0>> \o OrderBuckets(S \ {b0}, B, hashes)

\* candidate slot of a hash under a pilot
PilotSlot(h, pilot, seed, m) ==
    FastMod(Xor(h.second, DefaultHash64(pilot, seed)), ComputeM(m), m)

BucketSlots(bucket, pilot, seed, m) ==
    [i \in 1 .. Len(bucket) |-> PilotSlot(bucket[i], pilot, seed, m)]

\* a pilot is accepted iff the bucket's slots are pairwise distinct and all free
PilotAccepted(bucket, pilot, seed, m, taken) ==
    LET s == BucketSlots(bucket, pilot, seed, m)
    IN /\ \A i, j \in 1 .. Len(s) : i # j => s[i] # s[j]
       /\ \A i \in 1 .. Len(s) : s[i] \notin taken

\* the first accepted pilot from p on, or MaxPilot + 1 when the budget is exhausted
RECURSIVE FindPilot(_, _, _, _, _)
FindPilot(bucket, p, seed, m, taken) ==
    IF p > MaxPilot THEN p
    ELSE IF PilotAccepted(bucket, p, seed, m, taken) THEN p
    ELSE FindPilot(bucket, p + 1, seed, m, taken)

\* the search over the ordered buckets; order[i..] remain
RECURSIVE Search(_, _, _, _, _, _, _, _)
Search(order, i, B, hashes, seed, m, taken, pilots) ==
    IF i > Len(order) THEN [ok |-> TRUE, pilots |-> pilots, taken |-> taken]
    ELSE LET bucket == BucketHashes(B, hashes, order[i])
             p == FindPilot(bucket, 0, seed, m, taken)
         IN IF p > MaxPilot
            THEN [ok |-> FALSE, pilots |-> pilots, taken |-> taken]
            ELSE Search(order, i + 1, B, hashes, seed, m,
                        taken \cup {PilotSlot(bucket[j], p, seed, m) : j \in 1 .. Len(bucket)},
                        [pilots EXCEPT ![order[i] + 1] = p])

\* free_slots: entry j stands for table slot n + j - 1 and holds the next untaken
\* slot below n, one per taken slot at or above n (the last one repeated at the tail)
FreeSlots(taken, n, m) ==
    LET lows == SortedSeq({s \in 0 .. n - 1 : s \notin taken})
        used(s) == Cardinality({t \in n .. s - 1 : t \in taken})
    IN [j \in 1 .. m - n |->
            LET r == used(n + j - 1) + 1
            IN IF r <= Len(lows) THEN lows[r]
               ELSE IF Len(lows) > 0 THEN lows[Len(lows)] ELSE 0]

\* internal_memory_builder_single_phf::build_from_hashes. Its table size is the
\* one the partitioned builder accounts for it (TableSize), and it rejects an
\* alpha outside (0, 1] or a c that is not positive before searching.
SingleBuilder(hashes, config) ==
    IF ~AlphaValid(config.alpha) \/ ~CValid(config.c)
    THEN [ok |-> FALSE, error |-> "InvalidConfig"]
    ELSE LET n == Len(hashes)
             m == TableSize(n, config.alpha)
             B == NumBuckets(n, config)
             r == Search(OrderBuckets(0 .. B - 1, B, hashes), 1, B, hashes,
                         config.seed, m, {}, [b \in 1 .. B |-> 0])
         IN IF ~r.ok THEN [ok |-> FALSE, error |-> "SeedCollision"]
            ELSE [ok |-> TRUE, seed |-> config.seed, num_keys |-> n, table_size |-> m,
                  num_buckets |-> B, pilots |-> r.pilots, taken |-> r.taken,
                  free_slots |-> IF config.minimal_output /\ n < m
                                 THEN FreeSlots(r.taken, n, m) ELSE << >>]

(* ------------------------------- state --------------------------------- *)
VARIABLES
    kind,              \* "single" (single_phf) or "partitioned" (partitioned_phf)
    minimal,           \* the function type's template parameter Minimal
    keys,              \* the key set S of the current call
    config,            \* the caller's build_configuration
    phase,             \* where the current build_in_internal_memory call is
    builder,           \* the call's builder object (a local of the call)
    partitions,        \* build_from_hashes' local vector of per-partition hashes
    partition_config,  \* the config handed to the sub-builders
    main,              \* the calling thread's loop: [pc, i, begin]
    threads,           \* the worker threads of the current stage: [state, begin, end]
    f,                 \* the function object
    f_before,          \* the function object as it was when the call started
    error,             \* the error the call ended with ("" if none)
    rebuilt,           \* whether the function object has been built on before
    thread_timings,    \* build_partitions' vector of per-thread timings
    timings,           \* the timings build_partitions returns
    writes,            \* history: per partition, the threads that wrote its slot
                       \* in the current stage (0 is the calling thread)
    timing_writes      \* history: per thread_timings slot, the threads that wrote it

vars == <<kind, minimal, keys, config, phase, builder, partitions, partition_config,
          main, threads, f, f_before, error, rebuilt, thread_timings, timings,
          writes, timing_writes>>

\* a default-constructed single_phf
DefaultSingle ==
    [seed |-> 0, num_keys |-> 0, table_size |-> 0, M |-> 0, bucketer |-> 0,
     pilots |-> << >>, free_slots |-> << >>]

\* a default-constructed partitioned_phf::partition
DefaultPartition == [offset |-> 0, f |-> DefaultSingle]

\* a default-constructed partitioned_phf
DefaultPartitioned ==
    [seed |-> 0, num_keys |-> 0, table_size |-> 0, bucketer |-> 0, partitions |-> << >>]

\* a default-constructed internal_memory_builder_partitioned_phf
DefaultBuilder ==
    [seed |-> 0, num_keys |-> 0, table_size |-> 0, num_partitions |-> 0,
     bucketer |-> 0, offsets |-> << >>, builders |-> << >>]

\* a single builder on which build_from_hashes has not run
Unbuilt ==
    [ok |-> FALSE, error |-> "Unbuilt", seed |-> 0, num_keys |-> 0, table_size |-> 0,
     num_buckets |-> 0, pilots |-> << >>, taken |-> {}, free_slots |-> << >>]

NoThreads == << >>
\* a default-constructed build_timings (the two fields build_partitions fills)
NoTimings == [mapping_ordering_seconds |-> 0, searching_seconds |-> 0]
Idle == [pc |-> "idle", i |-> 0, begin |-> 0]

\* the keys in iteration order, hashed with a seed: hash_generator
HashesOf(S, seed) ==
    LET ks == SortedSeq(S) IN [i \in 1 .. Len(ks) |-> Hash(ks[i], seed)]

Configs ==
    {[num_partitions |-> P, num_threads |-> T, alpha |-> ac.alpha, c |-> ac.c,
      minimal_output |-> mo, seed |-> s, num_buckets |-> 0, verbose_output |-> TRUE] :
        P \in 0 .. MaxPartitions, T \in 1 .. MaxThreads, ac \in AlphaC,
        mo \in BOOLEAN, s \in Seeds \cup {InvalidSeed}}

Init ==
    /\ kind \in {"single", "partitioned"}
    /\ minimal \in BOOLEAN
    /\ keys \in (SUBSET (0 .. KeyUniverse - 1)) \ {{}}
    /\ config \in Configs
    /\ kind = "single" => config.num_partitions = 1 /\ config.num_threads = 1
    /\ phase = "idle"
    /\ builder = DefaultBuilder
    /\ partitions = << >>
    /\ partition_config = config
    /\ main = Idle
    /\ threads = NoThreads
    /\ f = IF kind = "single" THEN DefaultSingle ELSE DefaultPartitioned
    /\ f_before = f
    /\ error = ""
    /\ rebuilt = FALSE
    /\ thread_timings = << >>
    /\ timings = NoTimings
    /\ writes = << >>
    /\ timing_writes = << >>

(* ------------------------- function objects ---------------------------- *)
\* the check that opens single_phf::build and partitioned_phf::build
MinimalMismatch(cfg) ==
    (minimal /\ ~cfg.minimal_output) \/ (~minimal /\ cfg.minimal_output)

\* single_phf::build encoding one free slot too few
SinglePhfBuildShort(fn, b, cfg) ==
    [seed |-> b.seed,
     num_keys |-> b.num_keys,
     table_size |-> b.table_size,
     M |-> ComputeM(b.table_size),
     bucketer |-> b.num_buckets,
     pilots |-> SubSeq(b.pilots, 1, b.num_buckets),
     free_slots |-> IF minimal /\ b.num_keys < b.table_size
                    THEN SubSeq(b.free_slots, 1, b.table_size - b.num_keys - 1)
                    ELSE fn.free_slots]

\* single_phf::build, after its check: the members it assigns
SinglePhfBuild(fn, b, cfg) ==
    [seed |-> b.seed,
     num_keys |-> b.num_keys,
     table_size |-> b.table_size,
     M |-> ComputeM(b.table_size),
     bucketer |-> b.num_buckets,
     pilots |-> SubSeq(b.pilots, 1, b.num_buckets),
     free_slots |-> IF minimal /\ b.num_keys < b.table_size
                    THEN SubSeq(b.free_slots, 1, b.table_size - b.num_keys)
                    ELSE fn.free_slots]

\* single_phf::position comparing p <= num_keys
SinglePositionOffByOne(fn, hash) ==
    LET bucket == SkewBucket(fn.bucketer, hash.first)
        pilot == fn.pilots[bucket + 1]
        hashed_pilot == DefaultHash64(pilot, fn.seed)
        p == FastMod(Xor(hash.second, hashed_pilot), fn.M, fn.table_size)
    IN IF minimal
       THEN IF p <= fn.num_keys THEN p ELSE fn.free_slots[p - fn.num_keys + 1]
       ELSE p

\* single_phf::position
SinglePosition(fn, hash) ==
    LET bucket == SkewBucket(fn.bucketer, hash.first)
        pilot == fn.pilots[bucket + 1]
        hashed_pilot == DefaultHash64(pilot, fn.seed)
        p == FastMod(Xor(hash.second, hashed_pilot), fn.M, fn.table_size)
    IN IF minimal
       THEN IF p < fn.num_keys THEN p ELSE fn.free_slots[p - fn.num_keys + 1]
       ELSE p

\* partitioned_phf::position forgetting the partition's offset
PartitionedPositionNoOffset(fn, hash) ==
    LET b == UniformBucket(fn.bucketer, Mix(hash))
        p == fn.partitions[b + 1]
    IN SinglePosition(p.f, hash)

\* partitioned_phf::position
PartitionedPosition(fn, hash) ==
    LET b == UniformBucket(fn.bucketer, Mix(hash))
        p == fn.partitions[b + 1]
    IN p.offset + SinglePosition(p.f, hash)

\* operator(): the position of a key
Position(key) ==
    LET hash == Hash(key, f.seed)
    IN IF kind = "single" THEN SinglePosition(f, hash)
       ELSE PartitionedPosition(f, hash)

(* ------------------------- partitioned builder ------------------------- *)
\* the collapse to one partition also taken at an average of exactly min_partition_size
EffectivePartitionsInclusive(num_keys, cfg) ==
    IF num_keys <= MinPartitionSize * cfg.num_partitions /\ cfg.num_partitions > 1
    THEN 1 ELSE cfg.num_partitions

\* the effective number of partitions
EffectivePartitions(num_keys, cfg) ==
    IF num_keys < MinPartitionSize * cfg.num_partitions /\ cfg.num_partitions > 1
    THEN 1 ELSE cfg.num_partitions

\* the loop that appends each hash to the partition of its mix()
Partition(hashes, P) ==
    [b \in 1 .. P |-> SelectSeq(hashes, LAMBDA h : UniformBucket(P, Mix(h)) = b - 1)]

\* the table size accounted for partition i
AccountedSize(parts, cfg, i) == TableSize(Len(parts[i]), cfg.alpha)

\* m_offsets[i] taken after cumulative_size has been advanced past partition i
RECURSIVE OffsetInclusive(_, _, _)
OffsetInclusive(parts, cfg, i) ==
    (IF i = 1 THEN 0 ELSE OffsetInclusive(parts, cfg, i - 1))
    + (IF cfg.minimal_output THEN Len(parts[i]) ELSE AccountedSize(parts, cfg, i))

\* m_offsets[i]: cumulative_size when partition i (from 1) is reached
RECURSIVE Offset(_, _, _)
Offset(parts, cfg, i) ==
    IF i = 1 THEN 0
    ELSE Offset(parts, cfg, i - 1)
         + (IF cfg.minimal_output THEN Len(parts[i - 1])
            ELSE AccountedSize(parts, cfg, i - 1))

\* a sub-builder config that keeps the caller's seed
PartitionConfigCallerSeed(cfg, num_keys, P, seed) ==
    [cfg EXCEPT !.num_partitions = P,
                !.num_buckets = CeilBuckets(num_keys, cfg.c) \div P,
                !.verbose_output = FALSE,
                !.num_threads = 1]

\* the config of the sub-builders
PartitionConfig(cfg, num_keys, P, seed) ==
    [cfg EXCEPT !.num_partitions = P,
                !.seed = seed,
                !.num_buckets = CeilBuckets(num_keys, cfg.c) \div P,
                !.verbose_output = FALSE,
                !.num_threads = 1]

\* num_partitions_per_thread rounded down
PerThreadFloor(P, T) == P \div T

\* the ranges the spawning loops hand out: thread t (from 0) of T, P partitions
PerThread(P, T) == (P + T - 1) \div T
RangeEnd(begin, P, T) ==
    IF begin + PerThread(P, T) > P THEN P ELSE begin + PerThread(P, T)

(* -------------------------------- actions ------------------------------ *)
Inputs == <<kind, minimal, keys, config>>

StageStart(T) ==
    IF T > 1 THEN [pc |-> "spawn", i |-> 0, begin |-> 0]
    ELSE [pc |-> "seq", i |-> 0, begin |-> 0]

StageThreads(T) ==
    IF T > 1
    THEN [t \in 1 .. T |-> [state |-> "none", i |-> t - 1, first |-> 0, begin |-> 0,
                            end |-> 0]]
    ELSE NoThreads

\* std::vector<build_timings> thread_timings(num_threads)
StageTimings(T) == IF T > 1 THEN [t \in 1 .. T |-> NoTimings] ELSE << >>

\* what a call of a sub-builder's build_from_hashes reports as its timings: the
\* clock is read in units of work, one plus the keys mapped and one plus the pilots
\* tried
SubTimings(partition, r) ==
    [mapping_ordering_seconds |-> Len(partition) + 1,
     searching_seconds |-> SumSeq(r.pilots) + 1]

\* lhs.mapping_ordering_seconds += t..., lhs.searching_seconds += t...
AddTimings(lhs, t) ==
    [mapping_ordering_seconds |-> lhs.mapping_ordering_seconds + t.mapping_ordering_seconds,
     searching_seconds |-> lhs.searching_seconds + t.searching_seconds]

\* the loop that keeps, per field, the largest of the threads' timings
RECURSIVE MaxTimings(_, _)
MaxTimings(tt, k) ==
    IF k = 0 THEN NoTimings
    ELSE LET rest == MaxTimings(tt, k - 1)
         IN [mapping_ordering_seconds |->
                 Max(rest.mapping_ordering_seconds, tt[k].mapping_ordering_seconds),
             searching_seconds |->
                 Max(rest.searching_seconds, tt[k].searching_seconds)]

\* build_from_hashes assigning m_table_size instead of adding to it
PartitionedBuilderLastSize(seed, num_keys, P, parts, cfg) ==
    [seed |-> seed,
     num_keys |-> num_keys,
     table_size |-> AccountedSize(parts, cfg, P),
     num_partitions |-> P,
     bucketer |-> P,
     offsets |-> [i \in 1 .. P |-> Offset(parts, cfg, i)],
     builders |-> [i \in 1 .. P |-> Unbuilt]]

\* the members build_from_hashes leaves in the partitioned builder before it
\* calls build_partitions
PartitionedBuilder(seed, num_keys, P, parts, cfg) ==
    [seed |-> seed,
     num_keys |-> num_keys,
     table_size |-> SumSeq([i \in 1 .. P |-> AccountedSize(parts, cfg, i)]),
     num_partitions |-> P,
     bucketer |-> P,
     offsets |-> [i \in 1 .. P |-> Offset(parts, cfg, i)],
     builders |-> [i \in 1 .. P |-> Unbuilt]]

\* partitioned_phf::build_in_internal_memory up to the call of build_partitions:
\* build_from_keys, then build_from_hashes' partitioning
BuildFromKeys ==
    /\ phase = "idle" /\ kind = "partitioned"
    /\ \E seed \in (IF config.seed = InvalidSeed THEN Seeds ELSE {config.seed}) :
         IF config.num_partitions = 0
         THEN /\ phase' = "failed"
              /\ error' = "InvalidConfig"
              /\ UNCHANGED <<builder, partitions, partition_config, main, threads,
                             thread_timings, timings, writes, timing_writes>>
         ELSE LET n == Cardinality(keys)
                  P == EffectivePartitions(n, config)
                  parts == Partition(HashesOf(keys, seed), P)
              IN /\ builder' = PartitionedBuilder(seed, n, P, parts, config)
                 /\ partitions' = parts
                 /\ partition_config' = PartitionConfig(config, n, P, seed)
                 /\ phase' = "search"
                 /\ main' = StageStart(config.num_threads)
                 /\ threads' = StageThreads(config.num_threads)
                 /\ thread_timings' = StageTimings(config.num_threads)
                 /\ timings' = NoTimings
                 /\ writes' = [i \in 1 .. P |-> << >>]
                 /\ timing_writes' = [t \in DOMAIN thread_timings' |-> {}]
                 /\ error' = ""
    /\ UNCHANGED <<Inputs, f, f_before, rebuilt>>

\* a spawning loop that never advances begin
RangeBeginZero(t, P, T) == 0

\* the spawning loop: thread t (from 0) gets [begin, end), begin being the
\* previous thread's end
RECURSIVE RangeBegin(_, _, _)
RangeBegin(t, P, T) ==
    IF t = 0 THEN 0 ELSE RangeEnd(RangeBegin(t - 1, P, T), P, T)

Spawn ==
    /\ phase \in {"search", "encode"} /\ main.pc = "spawn"
    /\ LET T == config.num_threads
           P == builder.num_partitions
       IN /\ threads' = [t \in 1 .. T |->
                            [state |-> "run",
                             i |-> t - 1,
                             first |-> RangeBegin(t - 1, P, T),
                             begin |-> RangeBegin(t - 1, P, T),
                             end |-> RangeEnd(RangeBegin(t - 1, P, T), P, T)]]
          /\ main' = [pc |-> "join", i |-> 0, begin |-> RangeBegin(T, P, T)]
    /\ UNCHANGED <<Inputs, phase, builder, partitions, partition_config, f, f_before,
                   error, rebuilt, thread_timings, timings, writes, timing_writes>>

\* exe's ++begin and loop test: the thread returns when its range is exhausted
Advance(th) ==
    [th EXCEPT !.begin = @ + 1,
               !.state = IF th.begin + 1 = th.end THEN "done" ELSE "run"]

\* build_partitions' exe: one iteration; an exception leaving a thread ends the process
WorkerBuild(t) ==
    /\ phase = "search" /\ threads[t].state = "run" /\ threads[t].begin # threads[t].end
    /\ LET b == threads[t].begin
           r == SingleBuilder(partitions[b + 1], partition_config)
       IN IF r.ok
          THEN /\ builder' = [builder EXCEPT !.builders[b + 1] = r]
               /\ thread_timings' =
                      [thread_timings EXCEPT ![threads[t].i + 1] =
                          AddTimings(@, SubTimings(partitions[b + 1], r))]
               /\ writes' = [writes EXCEPT ![b + 1] = Append(@, t)]
               /\ timing_writes' =
                      [timing_writes EXCEPT ![threads[t].i + 1] = @ \cup {t}]
               /\ threads' = [threads EXCEPT ![t] = Advance(@)]
               /\ UNCHANGED <<phase, error>>
          ELSE /\ phase' = "terminated"
               /\ error' = r.error
               /\ UNCHANGED <<builder, threads, thread_timings, writes, timing_writes>>
    /\ UNCHANGED <<Inputs, partitions, partition_config, main, f, f_before, rebuilt,
                   timings>>

\* exe with an empty range returns at once
WorkerExit(t) ==
    /\ phase \in {"search", "encode"}
    /\ threads[t].state = "run" /\ threads[t].begin = threads[t].end
    /\ threads' = [threads EXCEPT ![t].state = "done"]
    /\ UNCHANGED <<Inputs, phase, builder, partitions, partition_config, main, f,
                   f_before, error, rebuilt, thread_timings, timings, writes,
                   timing_writes>>

\* a joining loop whose join returns without waiting for the thread
JoinNoWait ==
    /\ phase \in {"search", "encode"} /\ main.pc = "join"
    /\ main.i < config.num_threads
    /\ threads[main.i + 1].state \in {"run", "done"}
    /\ threads' = [threads EXCEPT ![main.i + 1].state = "joined"]
    /\ main' = [main EXCEPT !.i = main.i + 1]
    /\ UNCHANGED <<Inputs, phase, builder, partitions, partition_config, f, f_before,
                   error, rebuilt, thread_timings, timings, writes, timing_writes>>

\* one iteration of a joining loop: join blocks until the thread has returned
Join ==
    /\ phase \in {"search", "encode"} /\ main.pc = "join"
    /\ main.i < config.num_threads
    /\ threads[main.i + 1].state = "done"
    /\ threads' = [threads EXCEPT ![main.i + 1].state = "joined"]
    /\ main' = [main EXCEPT !.i = main.i + 1]
    /\ UNCHANGED <<Inputs, phase, builder, partitions, partition_config, f, f_before,
                   error, rebuilt, thread_timings, timings, writes, timing_writes>>

\* build_partitions' sequential loop: one iteration
SeqBuild ==
    /\ phase = "search" /\ kind = "partitioned"
    /\ main.pc = "seq" /\ main.i < builder.num_partitions
    /\ LET r == SingleBuilder(partitions[main.i + 1], partition_config)
       IN IF r.ok
          THEN /\ builder' = [builder EXCEPT !.builders[main.i + 1] = r]
               /\ timings' = AddTimings(timings, SubTimings(partitions[main.i + 1], r))
               /\ writes' = [writes EXCEPT ![main.i + 1] = Append(@, 0)]
               /\ main' = [main EXCEPT !.i = main.i + 1]
               /\ UNCHANGED <<phase, error>>
          ELSE /\ phase' = "failed"
               /\ error' = r.error
               /\ UNCHANGED <<builder, main, timings, writes>>
    /\ UNCHANGED <<Inputs, partitions, partition_config, threads, f, f_before, rebuilt,
                   thread_timings, timing_writes>>

\* the calling thread is past the loops of the current stage
StageDone ==
    \/ main.pc = "join" /\ main.i = config.num_threads
    \/ main.pc = "seq" /\ main.i = builder.num_partitions

\* std::vector::resize
Resize(v, len, default) ==
    [i \in 1 .. len |-> IF i <= Len(v) THEN v[i] ELSE default]

\* the timings build_partitions returns: the per-field maximum over the threads
\* after the joining loop, or what the sequential loop has summed
ReturnedTimings ==
    IF config.num_threads > 1 THEN MaxTimings(thread_timings, Len(thread_timings))
    ELSE timings

\* partitioned_phf::build assigning its members before its check
EncodeStartAssignFirst ==
    /\ phase = "search" /\ kind = "partitioned" /\ StageDone
    /\ f' = [seed |-> builder.seed,
             num_keys |-> builder.num_keys,
             table_size |-> builder.table_size,
             bucketer |-> builder.bucketer,
             partitions |-> Resize(f.partitions, builder.num_partitions, DefaultPartition)]
    /\ timings' = ReturnedTimings
    /\ thread_timings' = << >>
    /\ IF MinimalMismatch(config)
       THEN /\ phase' = "failed"
            /\ error' = "InvalidConfig"
            /\ UNCHANGED <<main, threads, writes>>
       ELSE /\ phase' = "encode"
            /\ main' = StageStart(config.num_threads)
            /\ threads' = StageThreads(config.num_threads)
            /\ writes' = [i \in 1 .. builder.num_partitions |-> << >>]
            /\ UNCHANGED error
    /\ UNCHANGED <<Inputs, builder, partitions, partition_config, f_before, rebuilt,
                   timing_writes>>

\* build_partitions returns; partitioned_phf::build up to its loops
EncodeStart ==
    /\ phase = "search" /\ kind = "partitioned" /\ StageDone
    /\ timings' = ReturnedTimings
    /\ thread_timings' = << >>
    /\ IF MinimalMismatch(config)
       THEN /\ phase' = "failed"
            /\ error' = "InvalidConfig"
            /\ UNCHANGED <<f, main, threads, writes>>
       ELSE /\ f' = [seed |-> builder.seed,
                     num_keys |-> builder.num_keys,
                     table_size |-> builder.table_size,
                     bucketer |-> builder.bucketer,
                     partitions |-> Resize(f.partitions, builder.num_partitions,
                                           DefaultPartition)]
            /\ phase' = "encode"
            /\ main' = StageStart(config.num_threads)
            /\ threads' = StageThreads(config.num_threads)
            /\ writes' = [i \in 1 .. builder.num_partitions |-> << >>]
            /\ UNCHANGED error
    /\ UNCHANGED <<Inputs, builder, partitions, partition_config, f_before, rebuilt,
                   timing_writes>>

\* the body of both encoding loops for partition b (from 0)
EncodePartition(fn, b) ==
    [fn EXCEPT !.partitions[b + 1] =
        [offset |-> builder.offsets[b + 1],
         f |-> SinglePhfBuild(@.f, builder.builders[b + 1], config)]]

\* partitioned_phf::build's exe: one iteration
WorkerEncode(t) ==
    /\ phase = "encode" /\ threads[t].state = "run" /\ threads[t].begin # threads[t].end
    /\ IF MinimalMismatch(config)
       THEN /\ phase' = "terminated"
            /\ error' = "InvalidConfig"
            /\ UNCHANGED <<f, threads, writes>>
       ELSE /\ f' = EncodePartition(f, threads[t].begin)
            /\ writes' = [writes EXCEPT ![threads[t].begin + 1] = Append(@, t)]
            /\ threads' = [threads EXCEPT ![t] = Advance(@)]
            /\ UNCHANGED <<phase, error>>
    /\ UNCHANGED <<Inputs, builder, partitions, partition_config, main, f_before, rebuilt,
                   thread_timings, timings, timing_writes>>

\* partitioned_phf::build's sequential loop: one iteration
SeqEncode ==
    /\ phase = "encode" /\ main.pc = "seq" /\ main.i < builder.num_partitions
    /\ IF MinimalMismatch(config)
       THEN /\ phase' = "failed"
            /\ error' = "InvalidConfig"
            /\ UNCHANGED <<f, main, writes>>
       ELSE /\ f' = EncodePartition(f, main.i)
            /\ writes' = [writes EXCEPT ![main.i + 1] = Append(@, 0)]
            /\ main' = [main EXCEPT !.i = main.i + 1]
            /\ UNCHANGED <<phase, error>>
    /\ UNCHANGED <<Inputs, builder, partitions, partition_config, threads, f_before,
                   rebuilt, thread_timings, timings, timing_writes>>

\* partitioned_phf::build returns, and build_in_internal_memory with it
EncodeDone ==
    /\ phase = "encode" /\ StageDone
    /\ phase' = "built"
    /\ UNCHANGED <<Inputs, builder, partitions, partition_config, main, threads, f,
                   f_before, error, rebuilt, thread_timings, timings, writes,
                   timing_writes>>

\* single_phf::build_in_internal_memory: the single builder, then single_phf::build
SingleBuildInInternalMemory ==
    /\ phase = "idle" /\ kind = "single"
    /\ \E seed \in (IF config.seed = InvalidSeed THEN Seeds ELSE {config.seed}) :
         LET r == SingleBuilder(HashesOf(keys, seed), [config EXCEPT !.seed = seed])
         IN IF ~r.ok
            THEN /\ phase' = "failed" /\ error' = r.error
                 /\ UNCHANGED <<builder, f>>
            ELSE /\ builder' = [DefaultBuilder EXCEPT !.builders = <<r>>]
                 /\ IF MinimalMismatch(config)
                    THEN /\ phase' = "failed" /\ error' = "InvalidConfig"
                         /\ UNCHANGED f
                    ELSE /\ phase' = "built" /\ error' = ""
                         /\ f' = SinglePhfBuild(f, r, config)
    /\ UNCHANGED <<Inputs, partitions, partition_config, main, threads, f_before, rebuilt,
                   thread_timings, timings, writes, timing_writes>>

\* the configs a caller tries next on the same function object
Variations(cfg) ==
    {[cfg EXCEPT !.num_partitions = 0],
     [cfg EXCEPT !.minimal_output = ~@],
     [cfg EXCEPT !.alpha = <<1, 1>>]} \ {cfg}

\* the caller calls build_in_internal_memory again on the same function object
Rebuild ==
    /\ phase = "built" /\ ~rebuilt
    /\ config' \in Variations(config)
    /\ rebuilt' = TRUE
    /\ phase' = "idle"
    /\ builder' = DefaultBuilder
    /\ partitions' = << >>
    /\ partition_config' = config'
    /\ main' = Idle
    /\ threads' = NoThreads
    /\ f_before' = f
    /\ error' = ""
    /\ thread_timings' = << >>
    /\ timings' = NoTimings
    /\ writes' = << >>
    /\ timing_writes' = << >>
    /\ UNCHANGED <<kind, minimal, keys, f>>

Next ==
    \/ BuildFromKeys
    \/ Spawn
    \/ \E t \in DOMAIN threads : WorkerBuild(t)
    \/ \E t \in DOMAIN threads : WorkerExit(t)
    \/ Join
    \/ SeqBuild
    \/ EncodeStart
    \/ \E t \in DOMAIN threads : WorkerEncode(t)
    \/ SeqEncode
    \/ EncodeDone
    \/ SingleBuildInInternalMemory
    \/ Rebuild

Spec == Init /\ [][Next]_vars

(* ------------------------------ vocabulary ----------------------------- *)
Built == phase = "built"
Ended == phase \in {"built", "failed", "terminated"}
Partitioned == kind = "partitioned"
Parallel == Partitioned /\ config.num_threads > 1
NumKeys == Cardinality(keys)

\* the single functions of the function object
Singles ==
    IF kind = "single" THEN <<f>>
    ELSE [i \in 1 .. Len(f.partitions) |-> f.partitions[i].f]

\* the table slot of a key's hash in a single function, before the remap
RawSlot(fn, hash) ==
    FastMod(Xor(hash.second,
                DefaultHash64(fn.pilots[SkewBucket(fn.bucketer, hash.first) + 1], fn.seed)),
            fn.M, fn.table_size)

\* the single function that answers for a key
SingleOf(key) ==
    IF kind = "single" THEN f
    ELSE f.partitions[UniformBucket(f.bucketer, Mix(Hash(key, f.seed))) + 1].f

PartitionOf(key) == UniformBucket(f.bucketer, Mix(Hash(key, f.seed)))

Remapped(key) == RawSlot(SingleOf(key), Hash(key, f.seed)) >= SingleOf(key).num_keys

\* the call is past the partitioning of build_from_hashes
PartitioningDone == Partitioned /\ phase # "idle" /\ builder.num_partitions > 0

SequentialFunction ==
    LET seed == builder.seed
        P == EffectivePartitions(NumKeys, config)
        parts == Partition(HashesOf(keys, seed), P)
        pcfg == PartitionConfig(config, NumKeys, P, seed)
        prev == Resize(f_before.partitions, P, DefaultPartition)
    IN [seed |-> seed,
        num_keys |-> NumKeys,
        table_size |-> SumSeq([i \in 1 .. P |-> TableSize(Len(parts[i]), config.alpha)]),
        bucketer |-> P,
        partitions |-> [i \in 1 .. P |->
            [offset |-> Offset(parts, config, i),
             f |-> SinglePhfBuild(prev[i].f, SingleBuilder(parts[i], pcfg), config)]]]

\* C4: for fixed keys, seed, c, alpha, P and minimal flag the built partitioned
\* function is the one a single-threaded build produces, whatever num_threads is
\* (also above P) and however the worker threads of both stages interleave.
C4_ThreadInvariance ==
    (Built /\ Partitioned) =>
        /\ \A i \in 1 .. Len(partitions) : SingleBuilder(partitions[i], partition_config).ok
        /\ f = SequentialFunction

C4_Witness ==
    /\ Built /\ Partitioned
    /\ Len(f.partitions) >= 2 /\ config.num_threads > Len(f.partitions)
    /\ \E k1, k2 \in keys : PartitionOf(k1) # PartitionOf(k2)

\* the sub-builders of the current call that fail, by partition (from 1)
FailingPartitions ==
    {i \in 1 .. Len(partitions) : ~SingleBuilder(partitions[i], partition_config).ok}

AllJoined == \A t \in DOMAIN threads : threads[t].state = "joined"

\* C5: in a parallel partitioned build in which sub-builders fail, no thread is cut
\* short: every thread finishes and is joined, and then the build fails with the
\* error kind of the first failure.
C5_ErrorsCollectedAfterJoin ==
    (Parallel /\ PartitioningDone /\ FailingPartitions # {}) =>
        /\ phase # "terminated"
        /\ Ended => /\ phase = "failed"
                    /\ AllJoined
                    /\ \E i \in FailingPartitions :
                          error = SingleBuilder(partitions[i], partition_config).error

\* C6: when build_in_internal_memory fails, for whatever reason, the function
\* object is exactly what it was before the call.
C6_NoPartialFunction ==
    phase \in {"failed", "terminated"} => f = f_before

C6_Witness ==
    /\ phase = "failed" /\ Partitioned /\ rebuilt
    /\ MinimalMismatch(config) /\ builder.num_partitions >= 2
    /\ f = f_before /\ Len(f.partitions) >= 2

\* the config is one the spec rejects
InvalidConfig ==
    \/ ~AlphaValid(config.alpha)
    \/ ~CValid(config.c)
    \/ config.num_partitions = 0
    \/ minimal # config.minimal_output

\* C7: a build whose alpha is outside (0,1], whose c is <= 0, whose
\* num_partitions is 0 or whose minimal_output differs from Minimal is rejected
\* with an InvalidConfig error and produces no function.
C7_InvalidConfigRejected ==
    (InvalidConfig /\ Ended) =>
        phase = "failed" /\ error = "InvalidConfig" /\ f = f_before

NonDecreasing(s) == \A i, j \in 1 .. Len(s) : i < j => s[i] <= s[j]
StrictlyIncreasing(s) == \A i, j \in 1 .. Len(s) : i < j => s[i] < s[j]

\* the single function at index i of the function object before the call
SingleBefore(i) ==
    IF kind = "single" THEN f_before
    ELSE Resize(f_before.partitions, Len(f.partitions), DefaultPartition)[i].f

C9_BuildReturns ==
    Ended =>
        /\ phase \in {"built", "failed"}
        /\ AllJoined
        /\ (PartitioningDone /\ FailingPartitions # {}) =>
              phase = "failed" /\ error \in {"SeedCollision", "InvalidConfig"}

\* C10: after the partitioned builder's partitioning, offsets[i] is the sum over
\* the earlier partitions of their key counts (minimal_output) or of their table
\* sizes (otherwise), table_size() is the sum of all table sizes, and the
\* intervals [offset_i, offset_i + width_i) tile [0, n) or [0, table_size()).
C10_Offsets ==
    PartitioningDone =>
        LET P == builder.num_partitions
            m(j) == TableSize(Len(partitions[j]), config.alpha)
            w(j) == IF config.minimal_output THEN Len(partitions[j]) ELSE m(j)
            total == IF config.minimal_output THEN NumKeys ELSE builder.table_size
        IN /\ Len(builder.offsets) = P
           /\ \A i \in 1 .. P :
                 builder.offsets[i] = SumSeq([j \in 1 .. i - 1 |-> w(j)])
           /\ builder.table_size = SumSeq([j \in 1 .. P |-> m(j)])
           /\ \A x \in 0 .. total - 1 :
                 Cardinality({i \in 1 .. P :
                     builder.offsets[i] <= x /\ x < builder.offsets[i] + w(i)}) = 1
           /\ \A i \in 1 .. P : builder.offsets[i] + w(i) <= total

C10_Witness ==
    /\ PartitioningDone /\ builder.num_partitions >= 2
    /\ config.minimal_output
    /\ \A i \in 1 .. 2 : Len(partitions[i]) > 0
    /\ \E i \in 1 .. 2 : TableSize(Len(partitions[i]), config.alpha) > Len(partitions[i]) + 1

\* the table size the builder's state shows for partition i (from 1) when the
\* offsets run over table sizes: the distance to the next offset, or to the total
SizeInState(i) ==
    IF i < builder.num_partitions
    THEN builder.offsets[i + 1] - builder.offsets[i]
    ELSE builder.table_size - builder.offsets[i]

\* m is the quotient size / alpha rounded toward zero, one more when that is zero
\* or a power of two
TruncatedSize(m, size, alpha) ==
    \E t \in 0 .. size * alpha[2] :
        /\ t * alpha[1] <= size * alpha[2]
        /\ size * alpha[2] < (t + 1) * alpha[1]
        /\ m = IF t = 0 \/ t \in {Pow(2, k) : k \in 0 .. 2 * HashBits} THEN t + 1 ELSE t

\* C11, as claimed: for a valid alpha the table size accounted for every partition
\* is ceil(|P_i| / alpha), plus one when that is a power of two, also when the
\* quotient is not an integer and when the partition is empty.
C11_AsClaimed ==
    (PartitioningDone /\ AlphaValid(config.alpha)) =>
        /\ builder.table_size =
              SumSeq([i \in 1 .. Len(partitions) |->
                         TableSizeCeil(Len(partitions[i]), config.alpha)])
        /\ ~config.minimal_output =>
              \A i \in 1 .. Len(partitions) :
                  SizeInState(i) = TableSizeCeil(Len(partitions[i]), config.alpha)

\* C11, amended: for a valid alpha the table size accounted for every partition is
\* |P_i| / alpha rounded toward zero, plus one when that is zero or a power of two;
\* the total table size is the sum of these.
C11_TableSizes ==
    (PartitioningDone /\ AlphaValid(config.alpha)) =>
        /\ builder.table_size =
              SumSeq([i \in 1 .. Len(partitions) |->
                         CHOOSE m \in 0 .. Len(partitions[i]) * config.alpha[2] + 1 :
                             TruncatedSize(m, Len(partitions[i]), config.alpha)])
        /\ ~config.minimal_output =>
              \A i \in 1 .. Len(partitions) :
                  TruncatedSize(SizeInState(i), Len(partitions[i]), config.alpha)

C11_Witness ==
    /\ PartitioningDone /\ config.alpha = <<2, 3>> /\ ~config.minimal_output
    /\ \E i \in 1 .. Len(partitions) : Len(partitions[i]) = 0
    /\ \E i \in 1 .. Len(partitions) : Len(partitions[i]) = 1
    /\ \E i \in 1 .. Len(partitions) : Len(partitions[i]) = 2

\* the function object has taken the current call's members
Encoding == Partitioned /\ phase \in {"encode", "built"}

\* C12: a requested P > 1 whose average partition size num_keys / P is below
\* min_partition_size is replaced by one partition, and every other P (also an
\* average of exactly min_partition_size, and P = 1) is used unchanged: the
\* bucketer, offsets, builders, partitions and sub-builder config are sized for
\* it, and so is the function object.
C12_Collapse ==
    LET P == IF config.num_partitions > 1
                /\ NumKeys \div config.num_partitions < MinPartitionSize
             THEN 1 ELSE config.num_partitions
    IN /\ PartitioningDone =>
            /\ builder.num_partitions = P
            /\ builder.bucketer = P
            /\ Len(builder.offsets) = P
            /\ Len(builder.builders) = P
            /\ Len(partitions) = P
            /\ partition_config.num_partitions = P
       /\ Encoding => f.bucketer = P /\ Len(f.partitions) = P

C12_Witness ==
    /\ Built /\ Partitioned
    /\ config.num_partitions = 3 /\ NumKeys = 2
    /\ Len(f.partitions) = 1 /\ f.bucketer = 1

\* the sub-builder config but for the floor of its bucket count
DerivedConfig ==
    /\ partition_config.num_buckets =
           CeilBuckets(NumKeys, config.c) \div builder.num_partitions
    /\ partition_config.num_threads = 1
    /\ ~partition_config.verbose_output
    /\ partition_config.seed = builder.seed
    /\ partition_config.num_partitions = builder.num_partitions
    /\ partition_config.alpha = config.alpha /\ partition_config.c = config.c
    /\ partition_config.minimal_output = config.minimal_output

\* what holds of the sub-builder config in every build: all of C13 but the floor of 1
C13_Derived == PartitioningDone => DerivedConfig

\* C13: for c > 0 every sub-builder runs with a config whose num_buckets is
\* floor(ceil(c*n / log2 n) / P) and at least 1, whose num_threads is 1, whose
\* verbose output is off and whose seed is the partitioned function's seed, also
\* when P exceeds ceil(c*n / log2 n).
C13_SubBuilderConfig ==
    (PartitioningDone /\ CValid(config.c)) =>
        /\ DerivedConfig
        /\ partition_config.num_buckets >= 1
        /\ Encoding => partition_config.seed = f.seed

\* the worker threads of the current stage have been spawned
Spawned == Parallel /\ phase \in {"search", "encode", "built"} /\ main.pc = "join"

\* the threads whose range holds partition p (from 0)
Owners(p) == {t \in DOMAIN threads : threads[t].first <= p /\ p < threads[t].end}

\* C14: with T > 1 threads and P partitions, in both stages, the threads' ranges are
\* consecutive, each starting where the previous one ends, of at most ceil(P/T)
\* partitions, clipped at P, with begin <= end; they are pairwise disjoint and
\* cover 0..P-1, so that every slot is written by the one thread that owns it, at
\* most once and exactly once when the stage is over, also when T > P or T does
\* not divide P; and thread i alone writes thread_timings[i].
C14_DisjointRanges ==
    LET P == builder.num_partitions
        T == config.num_threads
        q == CHOOSE k \in 0 .. P : k * T >= P /\ (k - 1) * T < P
    IN /\ Spawned =>
            /\ \A t \in 1 .. T :
                  /\ threads[t].first = IF t = 1 THEN 0 ELSE threads[t - 1].end
                  /\ threads[t].first <= threads[t].begin
                  /\ threads[t].begin <= threads[t].end
                  /\ threads[t].end <= P
                  /\ threads[t].end - threads[t].first <= q
                  /\ threads[t].i = t - 1
            /\ threads[T].end = P
            /\ \A p \in 0 .. P - 1 :
                  /\ Cardinality(Owners(p)) = 1
                  /\ Len(writes[p + 1]) <= 1
                  /\ \A k \in 1 .. Len(writes[p + 1]) : writes[p + 1][k] \in Owners(p)
                  /\ (StageDone \/ phase = "built") => Len(writes[p + 1]) = 1
       /\ Parallel =>
            \A k \in DOMAIN timing_writes : timing_writes[k] \subseteq {k}

C14_Witness ==
    /\ Built /\ Parallel
    /\ builder.num_partitions = 3 /\ config.num_threads = 2
    /\ \A p \in 1 .. 3 : Len(writes[p]) = 1
    /\ writes[3] = <<2>>
    /\ timing_writes = <<{1}, {2}>>

\* every worker thread of the current stage has exhausted its range and been joined
AllFinished ==
    \A t \in DOMAIN threads :
        threads[t].state = "joined" /\ threads[t].begin = threads[t].end

\* the work of thread t (from 1) of T in the build stage: the timings of the
\* partitions t*ceil(P/T) .. (t+1)*ceil(P/T) - 1 below P, summed
ThreadWork(t, field) ==
    LET P == builder.num_partitions
        T == config.num_threads
        q == CHOOSE k \in 0 .. P : k * T >= P /\ (k - 1) * T < P
    IN SumSeq([i \in 1 .. P |->
                  IF (t - 1) * q < i /\ i <= t * q
                  THEN SubTimings(partitions[i], builder.builders[i])[field]
                  ELSE 0])

\* the calling thread ends a stage: build_partitions or partitioned_phf::build returns
StageReturns ==
    \/ phase = "search" /\ phase' \in {"encode", "failed"}
    \/ phase = "encode" /\ phase' = "built"

\* C15: no result is read while a worker may still be writing it. The timings are
\* aggregated, and a stage returns, only when every worker thread has finished its
\* range and been joined; the aggregate is the maximum over the threads; the
\* encoding stage finds every builder built; and a built function has every
\* partition encoded from its builder.
C15_JoinBeforeRead ==
    /\ [](Encoding =>
            \A i \in 1 .. builder.num_partitions :
                /\ builder.builders[i].ok
                /\ builder.builders[i].num_keys = Len(partitions[i]))
    /\ []((Encoding /\ Parallel) =>
            \A field \in {"mapping_ordering_seconds", "searching_seconds"} :
                /\ \A t \in 1 .. config.num_threads : timings[field] >= ThreadWork(t, field)
                /\ \E t \in 1 .. config.num_threads : timings[field] = ThreadWork(t, field))
    /\ []((Built /\ Partitioned) =>
            \A i \in 1 .. builder.num_partitions :
                /\ Len(writes[i]) = 1
                /\ f.partitions[i].offset = builder.offsets[i]
                /\ f.partitions[i].f.num_keys = Len(partitions[i])
                /\ f.partitions[i].f.pilots = builder.builders[i].pilots)
    /\ [][(Parallel /\ (StageReturns \/ timings' # timings)) => AllFinished]_vars

C15_Witness ==
    /\ Built /\ Parallel /\ AllFinished
    /\ builder.num_partitions = 3 /\ config.num_threads = 3
    /\ timings.mapping_ordering_seconds >= 3
    /\ \E t \in 1 .. 3 : ThreadWork(t, "mapping_ordering_seconds") < timings.mapping_ordering_seconds

\* the partitions (from 1) that hold the hash h
Holding(h) ==
    {i \in 1 .. Len(partitions) : \E j \in 1 .. Len(partitions[i]) : partitions[i][j] = h}

\* C16: every key is placed in exactly one partition (the partition sizes sum to
\* n), and the query consults that partition with the build's parameters: the
\* function's partition bucketer is the builder's, for the effective partition
\* count; every partition's single function stores the partitioned function's
\* seed; and that seed is the one the keys were hashed with, the config's or, when
\* that is the sentinel, the drawn one.
C16_PartitionConsistency ==
    /\ PartitioningDone =>
          /\ SumSeq([i \in 1 .. Len(partitions) |-> Len(partitions[i])]) = NumKeys
          /\ \A k \in keys :
                Holding(Hash(k, builder.seed)) =
                    {UniformBucket(builder.bucketer, Mix(Hash(k, builder.seed))) + 1}
          /\ builder.bucketer = Len(partitions)
          /\ IF config.seed = InvalidSeed THEN builder.seed \in Seeds
             ELSE builder.seed = config.seed
    /\ Encoding =>
          /\ f.seed = builder.seed
          /\ f.bucketer = builder.bucketer
          /\ Len(f.partitions) = Len(partitions)
    /\ (Built /\ Partitioned) =>
          /\ \A i \in 1 .. Len(f.partitions) : f.partitions[i].f.seed = f.seed
          /\ \A k \in keys :
                /\ Holding(Hash(k, f.seed)) = {PartitionOf(k) + 1}
                /\ f.partitions[PartitionOf(k) + 1].f.num_keys =
                       Len(partitions[PartitionOf(k) + 1])

C16_Witness ==
    /\ Built /\ Partitioned
    /\ config.seed = InvalidSeed /\ f.seed = 2
    /\ Len(f.partitions) >= 2
    /\ \E k1, k2 \in keys :
          /\ PartitionOf(k1) # PartitionOf(k2)
          /\ Hash(k1, 1) = Hash(k2, 1)
====
